---- MODULE Spec2Model ----
(***************************************************************************)
(* Model of sbomreport-to-dependencytrack: Upload.Run (uploader.go) and    *)
(* DependencyTrack.IsLatest / UploadBOM / AddTagsToProject                 *)
(* (dependencytrack package), run against a Dependency-Track service that  *)
(* holds one project (name, version).                                      *)
(*                                                                         *)
(* Time is discrete.  Each UploadBOM poll loop carries its own clocks,     *)
(* measured from the start of the loop; Advance moves all of them by one   *)
(* unit.  A Go select that has a ready case proceeds before time passes.   *)
(***************************************************************************)
EXTENDS Integers, Sequences, FiniteSets, TLC

\* ------------------------------------------------------------- bounds ----
MaxDuration == 2    \* checkInterval and uploadTimeout range over 1..MaxDuration
MaxTime     == 3    \* a poll loop is followed for MaxTime time units
MaxStamp    == 1    \* lastBOMImport (epoch millis) is in 0..MaxStamp
MaxTsLen    == 2    \* length of the report's update-timestamp string
MaxTags     == 2    \* number of rendered tags of a report

Procs    == {"r1", "r2"}                 \* the (at most two) concurrent runs
Chars    == {"1", "-", "x"}              \* characters of a timestamp string
TagNames == {"a"}                        \* the tags a report's templates render to

Strings(n)  == UNION {[1..k -> Chars] : k \in 0..n}
TagLists(n) == UNION {[1..k -> TagNames] : k \in 0..n}

\* ------------------------------------------------------- strconv.ParseInt
IsDigit(c)  == c \in {"1"}
DigitVal(c) == IF c = "1" THEN 1 ELSE 0

RECURSIVE DigitsVal(_)
DigitsVal(s) ==
    IF s = <<>> THEN 0
    ELSE 10 * DigitsVal(SubSeq(s, 1, Len(s) - 1)) + DigitVal(s[Len(s)])

\* strconv.ParseInt(s, 10, 64): an optional sign followed by one or more
\* decimal digits; anything else is a syntax error (err /= nil).
ParseInt(s) ==
    LET neg    == s /= <<>> /\ s[1] = "-"
        digits == IF neg THEN Tail(s) ELSE s
    IN  IF digits = <<>> \/ \E i \in 1..Len(digits) : ~IsDigit(digits[i])
        THEN [ok |-> FALSE, val |-> 0]
        ELSE [ok |-> TRUE,
              val |-> IF neg THEN 0 - DigitsVal(digits) ELSE DigitsVal(digits)]

\* ------------------------------------------------------------ reports ----
\* What sbomreport.New / ISVerbUpdate / ToMap / Render make of the input bytes.
\*   notSBOM      sbomreport.New fails with ErrNotSBOMReport
\*   invalid      sbomreport.New fails with another error
\*   create       a report whose verb is not "update"
\*   unmappable   ToMap fails
\*   unrenderable a template fails to render
\*   update       everything resolves; ts is UpdateTimestamp, tags the rendered tags
NoField == <<>>
FailingReports ==
    {[kind |-> k, ts |-> NoField, tags |-> NoField] :
        k \in {"notSBOM", "invalid", "create", "unmappable", "unrenderable"}}
UpdateReports ==
    {[kind |-> "update", ts |-> s, tags |-> t] :
        s \in Strings(MaxTsLen), t \in TagLists(MaxTags)}
AllReports == FailingReports \cup UpdateReports
NoReport == [kind |-> "none", ts |-> NoField, tags |-> NoField]
\* Once Run has read a report only its kind is remembered (history).
Read(r)  == [kind |-> r.kind, ts |-> NoField, tags |-> NoField]

\* --------------------------------------------------------------- state ---
VARIABLES
    cfg,          \* [checkInterval, uploadTimeout]: DependencyTrack's durations
    net,          \* "lossy": any service call may fail; "reliable": only refusals
    svc,          \* the project record held by the service
    boms,         \* the service's uploads, indexed by upload token
    report,       \* per run: the input of Run, until Run has read it
    arbiter,      \* per run: <<v>> once IsLatest has returned v, <<>> before (history)
    pc,           \* per run: position of Run / IsLatest / UploadBOM / AddTagsToProject
    cancelled,    \* per run: ctx.Done() is closed
    cancelPhase,  \* per run: where the run was when ctx was cancelled (history)
    cancelAt,     \* per run: poll-loop clock when ctx was cancelled (history)
    projectTags,  \* per run: Run's projectTags
    incomingTS,   \* per run: Run's incomingTS
    errTS,        \* per run: TRUE iff Run's errTS /= nil
    isLatest,     \* per run: Run's isLatest, UploadBOM's parameter
    project,      \* per run: the local project record of the current function
    uploadToken,  \* per run: UploadBOM's uploadToken (0: none)
    gpc,          \* per run: position of UploadBOM's goroutine
    gval,         \* per run: the value the goroutine is sending
    tickPending,  \* per run: ticker.C holds a tick
    untilTick,    \* per run: time until the ticker fires next
    sinceSelect,  \* per run: time since the current select (and its time.After) began
    elapsed,      \* per run: time since the poll loop started
    qStart,       \* per run: poll-loop clock at which the last query was issued
    finishedAt,   \* per run: poll-loop clock at which the service finished the token (history)
    ubResult,     \* per run: what UploadBOM returned ("none": not yet)
    result,       \* per run: what Run returned ("none": not yet)
    calls         \* per run: the tracking-service calls made so far (history)

vars == <<cfg, net, svc, boms, report, arbiter, pc, cancelled, cancelPhase, cancelAt, projectTags,
          incomingTS, errTS, isLatest, project, uploadToken, gpc, gval, tickPending,
          untilTick, sinceSelect, elapsed, qStart, finishedAt, ubResult, result, calls>>

NoProject == [uuid |-> 0, lastBOMImport |-> 0, tags |-> <<>>]

Durations == 1..MaxDuration
Configs   == [checkInterval : Durations, uploadTimeout : Durations]

Services ==
    {[exists |-> FALSE, uuid |-> 0, lastBOMImport |-> 0, tags |-> <<>>]}
    \cup {[exists |-> TRUE, uuid |-> 1, lastBOMImport |-> s, tags |-> t] :
            s \in 0..MaxStamp, t \in {<<>>, <<"b">>}}

InitWith(reports) ==
    /\ cfg \in Configs
    /\ net \in {"lossy", "reliable"}
    /\ svc \in Services
    /\ boms = <<>>
    /\ report \in reports
    /\ arbiter = [p \in Procs |-> <<>>]
    /\ pc = [p \in Procs |-> IF report[p] = NoReport THEN "idle" ELSE "run"]
    /\ cancelled = [p \in Procs |-> FALSE]
    /\ cancelPhase = [p \in Procs |-> "none"]
    /\ cancelAt = [p \in Procs |-> 0]
    /\ projectTags = [p \in Procs |-> <<>>]
    /\ incomingTS = [p \in Procs |-> 0]
    /\ errTS = [p \in Procs |-> FALSE]
    /\ isLatest = [p \in Procs |-> TRUE]
    /\ project = [p \in Procs |-> NoProject]
    /\ uploadToken = [p \in Procs |-> 0]
    /\ gpc = [p \in Procs |-> "none"]
    /\ gval = [p \in Procs |-> "none"]
    /\ tickPending = [p \in Procs |-> FALSE]
    /\ untilTick = [p \in Procs |-> 0]
    /\ sinceSelect = [p \in Procs |-> 0]
    /\ elapsed = [p \in Procs |-> 0]
    /\ qStart = [p \in Procs |-> 0]
    /\ finishedAt = [p \in Procs |-> -1]
    /\ ubResult = [p \in Procs |-> "none"]
    /\ result = [p \in Procs |-> "none"]
    /\ calls = [p \in Procs |-> <<>>]

\* The shortest durations: the first tick and the timeout fall together.
Shortest == [checkInterval |-> 1, uploadTimeout |-> 1]

\* One run, of any report against any project, with the shortest durations:
\* r1 handles the report, r2 never starts.
Init ==
    /\ InitWith({[r1 |-> r, r2 |-> NoReport] : r \in AllReports})
    /\ net = "lossy"
    /\ cfg = Shortest

\* One run, of one update report that takes Run through every step, with
\* any checkInterval and uploadTimeout.
PollReport == [kind |-> "update", ts |-> <<"1">>, tags |-> <<"a">>]

InitPoll ==
    /\ InitWith({[r1 |-> PollReport, r2 |-> NoReport]})
    /\ net = "lossy"


\* ------------------------------------------------------------ helpers ----
ctxVars  == <<cancelled, cancelPhase, cancelAt>>
runVars  == <<projectTags, incomingTS, errTS, arbiter>>
pollVars == <<gpc, gval, tickPending, untilTick, sinceSelect, elapsed, qStart>>

\* A call of the tracking-service client made by function fn of run p.
Call(fn, op, ok, val) == <<fn, op, ok, val>>
Logged(p, c) == calls' = [calls EXCEPT ![p] = Append(@, c)]

\* The client's request carries ctx: it cannot succeed once ctx is cancelled.
CanSucceed(p) == ~cancelled[p]

\* The outcomes (TRUE: success) of a call by run p that the service can
\* serve iff possible: it fails when the service refuses it or ctx is
\* cancelled, and over a lossy network it may fail anyway.
Outcomes(p, possible) ==
    {ok \in BOOLEAN : /\ ok => (possible /\ CanSucceed(p))
                      /\ ~ok => (net = "lossy" \/ ~(possible /\ CanSucceed(p)))}

\* The record Project.Lookup returns.
Record == [uuid |-> svc.uuid, lastBOMImport |-> svc.lastBOMImport, tags |-> svc.tags]

\* ---------------------------------------------------------- Upload.Run ---
\* RunOutcome without the ISVerbUpdate check of lines 48-50.
RunOutcome_AnyVerb(r) ==
    CASE r.kind = "notSBOM"      -> [next |-> "done", err |-> "nil"]
      [] r.kind = "invalid"      -> [next |-> "done", err |-> "errNew"]
      [] r.kind = "unmappable"   -> [next |-> "done", err |-> "errToMap"]
      [] r.kind = "unrenderable" -> [next |-> "done", err |-> "errRender"]
      [] OTHER ->
            [next |-> IF ParseInt(r.ts).ok THEN "IsLatest" ELSE "ub_lookup",
             err  |-> "none"]

\* RunOutcome without the IsErrNotSBOMReport check of lines 41-43.
RunOutcome_NoSkip(r) ==
    CASE r.kind \in {"notSBOM", "invalid"} -> [next |-> "done", err |-> "errNew"]
      [] r.kind = "create"       -> [next |-> "done", err |-> "errVerb"]
      [] r.kind = "unmappable"   -> [next |-> "done", err |-> "errToMap"]
      [] r.kind = "unrenderable" -> [next |-> "done", err |-> "errRender"]
      [] OTHER ->
            [next |-> IF ParseInt(r.ts).ok THEN "IsLatest" ELSE "ub_lookup",
             err  |-> "none"]

\* uploader.go 38-92: everything Run does before its first service call.
\* next is where Run goes, err what it returns when next = "done".
RunOutcome(r) ==
    CASE r.kind = "notSBOM"      -> [next |-> "done", err |-> "nil"]
      [] r.kind = "invalid"      -> [next |-> "done", err |-> "errNew"]
      [] r.kind = "create"       -> [next |-> "done", err |-> "errVerb"]
      [] r.kind = "unmappable"   -> [next |-> "done", err |-> "errToMap"]
      [] r.kind = "unrenderable" -> [next |-> "done", err |-> "errRender"]
      [] OTHER ->
            [next |-> IF ParseInt(r.ts).ok THEN "IsLatest" ELSE "ub_lookup",
             err  |-> "none"]

RunStart(p) ==
    /\ pc[p] = "run"
    /\ LET r == report[p]
           o == RunOutcome(r)
       IN  /\ pc' = [pc EXCEPT ![p] = o.next]
           /\ result' = [result EXCEPT ![p] = o.err]
           /\ projectTags' = [projectTags EXCEPT ![p] = r.tags]
           /\ incomingTS' = [incomingTS EXCEPT ![p] = ParseInt(r.ts).val]
           /\ errTS' = [errTS EXCEPT ![p] = ~ParseInt(r.ts).ok]
    /\ report' = [report EXCEPT ![p] = Read(report[p])]
    /\ isLatest' = [isLatest EXCEPT ![p] = TRUE]
    /\ UNCHANGED <<cfg, net, svc, boms, arbiter, ctxVars, project, uploadToken, pollVars,
                   finishedAt, ubResult, calls>>

\* AfterUpload with the len(projectTags) > 0 guard of line 98 dropped.
AfterUpload_AlwaysTag(err, tags) ==
    IF err /= "nil" THEN [next |-> "done", err |-> err]
    ELSE [next |-> "at_lookup", err |-> "none"]

\* AfterUpload with the error check of lines 94-96 dropped: Run goes on to tag.
AfterUpload_IgnoreErr(err, tags) ==
    IF Len(tags) > 0 THEN [next |-> "at_lookup", err |-> "none"]
    ELSE [next |-> "done", err |-> "nil"]

\* uploader.go 94-104: what Run does with UploadBOM's return value.
AfterUpload(err, tags) ==
    IF err /= "nil" THEN [next |-> "done", err |-> err]
    ELSE IF Len(tags) > 0 THEN [next |-> "at_lookup", err |-> "none"]
    ELSE [next |-> "done", err |-> "nil"]

\* UploadBOM returns err to Run.
UploadReturns(p, err) ==
    /\ ubResult' = [ubResult EXCEPT ![p] = err]
    /\ pc' = [pc EXCEPT ![p] = AfterUpload(err, projectTags[p]).next]
    /\ result' = [result EXCEPT ![p] = AfterUpload(err, projectTags[p]).err]

\* ------------------------------------------------ DependencyTrack.IsLatest
\* IsLatestValue with <= for < (line 131).
IsLatestValue_NonStrict(found, rec, updateTimestamp) ==
    IF ~found THEN TRUE ELSE rec.lastBOMImport <= updateTimestamp

\* IsLatestValue answering false when the lookup fails (line 129).
IsLatestValue_FailFalse(found, rec, updateTimestamp) ==
    IF ~found THEN FALSE ELSE rec.lastBOMImport < updateTimestamp

\* Lines 127-131: true when the lookup fails, else LastBOMImport < updateTimestamp.
IsLatestValue(found, rec, updateTimestamp) ==
    IF ~found THEN TRUE ELSE rec.lastBOMImport < updateTimestamp

IsLatest(p) ==
    /\ pc[p] = "IsLatest"
    /\ \E ok \in Outcomes(p, svc.exists) :
        /\ isLatest' = [isLatest EXCEPT ![p] = IsLatestValue(ok, Record, incomingTS[p])]
        /\ arbiter' = [arbiter EXCEPT ![p] = <<IsLatestValue(ok, Record, incomingTS[p])>>]
        /\ Logged(p, Call("IsLatest", "Lookup", ok,
                          IF ok THEN svc.lastBOMImport ELSE 0))
    /\ pc' = [pc EXCEPT ![p] = "ub_lookup"]
    /\ UNCHANGED <<cfg, net, svc, boms, report, ctxVars, projectTags, incomingTS, errTS,
                   project, uploadToken, pollVars, finishedAt, ubResult, result>>


\* ----------------------------------------------- DependencyTrack.UploadBOM
\* Line 43: the first Project.Lookup.
UBLookup(p) ==
    /\ pc[p] = "ub_lookup"
    /\ \E ok \in Outcomes(p, svc.exists) :
        /\ Logged(p, Call("UploadBOM", "Lookup", ok, IF ok THEN svc.uuid ELSE 0))
        /\ project' = [project EXCEPT ![p] = IF ok THEN Record ELSE NoProject]
        /\ pc' = [pc EXCEPT ![p] = IF ok THEN "ub_submit" ELSE "ub_create"]
    /\ UNCHANGED <<cfg, net, svc, boms, report, ctxVars, runVars, isLatest, uploadToken,
                   pollVars, finishedAt, ubResult, result>>

\* The project Project.Create stores: Active, no tags, never imported.
Created == [exists |-> TRUE, uuid |-> 2, lastBOMImport |-> 0, tags |-> <<>>]

\* AfterCreate that calls Project.Create again when it failed.
AfterCreate_Retry(ok) == IF ok THEN "ub_relookup" ELSE "ub_create"

\* Lines 51-54: where UploadBOM goes after Project.Create.
AfterCreate(ok) == IF ok THEN "ub_relookup" ELSE "return"

\* Lines 46-54: Project.Create; the service refuses a project that exists.
UBCreate(p) ==
    /\ pc[p] = "ub_create"
    /\ \E ok \in Outcomes(p, ~svc.exists) :
        /\ Logged(p, Call("UploadBOM", "Create", ok,
                          IF ~ok /\ svc.exists THEN "conflict" ELSE "-"))
        /\ svc' = IF ok THEN Created ELSE svc
        /\ IF AfterCreate(ok) = "return"
           THEN UploadReturns(p, "errCreate")
           ELSE /\ pc' = [pc EXCEPT ![p] = AfterCreate(ok)]
                /\ UNCHANGED <<ubResult, result>>
    /\ UNCHANGED <<cfg, net, boms, report, ctxVars, runVars, isLatest, project, uploadToken,
                   pollVars, finishedAt>>

\* Lines 46 and 57: `project := dtrack.Project{...}` declares a second variable
\* inside the if block, and the re-lookup's `project, err = ...` assigns that
\* inner one.  The `project` of line 43, which lines 63 and 66 read, keeps the
\* value the failed first lookup returned.
ProjectAfterRelookup(outer, found) == outer

\* Lines 56-59: the re-lookup after a successful create.
UBRelookup(p) ==
    /\ pc[p] = "ub_relookup"
    /\ \E ok \in Outcomes(p, svc.exists) :
        /\ Logged(p, Call("UploadBOM", "Lookup", ok, IF ok THEN svc.uuid ELSE 0))
        /\ project' = [project EXCEPT ![p] =
                           ProjectAfterRelookup(project[p],
                                                IF ok THEN Record ELSE NoProject)]
        /\ IF ok
           THEN /\ pc' = [pc EXCEPT ![p] = "ub_submit"]
                /\ UNCHANGED <<ubResult, result>>
           ELSE UploadReturns(p, "errLookup")
    /\ UNCHANGED <<cfg, net, svc, boms, report, ctxVars, runVars, isLatest, uploadToken,
                   pollVars, finishedAt>>

\* UploadRequest that ignores the isLatest parameter (line 72).
UploadRequest_AlwaysLatest(p) ==
    [uuid |-> project[p].uuid, latest |-> TRUE, processing |-> TRUE, owner |-> p]

\* Lines 65-73: the BOMUploadRequest UploadBOM sends.
UploadRequest(p) ==
    [uuid |-> project[p].uuid, latest |-> isLatest[p], processing |-> TRUE, owner |-> p]

\* The service takes a BOM for the project the request's ProjectUUID names
\* (line 66) and refuses one whose UUID names no project.
Accepts(req) == svc.exists /\ req.uuid = svc.uuid

\* Lines 65-90: BOM.Upload; on success the channels are made and the goroutine
\* starts: it creates its ticker and enters the select for the first time.
UBSubmit(p) ==
    /\ pc[p] = "ub_submit"
    /\ \E ok \in Outcomes(p, Accepts(UploadRequest(p))) :
        /\ Logged(p, Call("UploadBOM", "Submit", ok,
                          <<UploadRequest(p).uuid, UploadRequest(p).latest,
                            IF ok THEN Len(boms) + 1 ELSE 0>>))
        /\ IF ok
           THEN /\ boms' = Append(boms, UploadRequest(p))
                /\ uploadToken' = [uploadToken EXCEPT ![p] = Len(boms) + 1]
                /\ pc' = [pc EXCEPT ![p] = "ub_wait"]
                /\ gpc' = [gpc EXCEPT ![p] = "select"]
                /\ untilTick' = [untilTick EXCEPT ![p] = cfg.checkInterval]
                /\ sinceSelect' = [sinceSelect EXCEPT ![p] = 0]
                /\ elapsed' = [elapsed EXCEPT ![p] = 0]
                /\ UNCHANGED <<ubResult, result>>
           ELSE /\ UploadReturns(p, "errSubmit")
                /\ UNCHANGED <<boms, uploadToken, gpc, untilTick, sinceSelect, elapsed>>
    /\ UNCHANGED <<cfg, net, svc, report, ctxVars, runVars, isLatest, project, gval,
                   tickPending, qStart, finishedAt>>

\* TimeoutReady with a timer that fires one unit early.
TimeoutReady_Early(p) == sinceSelect[p] >= cfg.uploadTimeout - 1

\* CtxReady for a loop that looks at ctx only when a tick arrives.
CtxReady_OnTick(p) == cancelled[p] /\ tickPending[p]

\* The three cases of the goroutine's select (lines 93-110).
TickReady(p)    == tickPending[p]
\* time.After(dt.SBOMUploadTimeout) is evaluated each time the select is entered.
TimeoutReady(p) == sinceSelect[p] >= cfg.uploadTimeout
CtxReady(p)     == cancelled[p]

\* Line 94-95: case <-ticker.C; IsBeingProcessed is called.
GoTick(p) ==
    /\ gpc[p] = "select"
    /\ TickReady(p)
    /\ tickPending' = [tickPending EXCEPT ![p] = FALSE]
    /\ gpc' = [gpc EXCEPT ![p] = "query"]
    /\ qStart' = [qStart EXCEPT ![p] = elapsed[p]]
    /\ UNCHANGED <<cfg, net, svc, boms, report, pc, ctxVars, runVars, isLatest, project,
                   uploadToken, gval, untilTick, sinceSelect, elapsed, finishedAt,
                   ubResult, result, calls>>

\* AfterQuery that looks at processing before err: a failed query leaves
\* processing false and so counts as completion.
AfterQuery_ErrIsDone(ok, processing) ==
    IF ~(ok /\ processing) THEN [gpc |-> "sendDone", gval |-> "done"]
    ELSE [gpc |-> "select", gval |-> "none"]

\* Lines 95-103: IsBeingProcessed answers; the goroutine sends or loops.
AfterQuery(ok, processing) ==
    IF ~ok THEN [gpc |-> "sendErr", gval |-> "errPoll"]
    ELSE IF ~processing THEN [gpc |-> "sendDone", gval |-> "done"]
    ELSE [gpc |-> "select", gval |-> "none"]

\* QueryToken that asks about an empty token instead of the submit's.
QueryToken_Empty(p) == 0

\* Line 95: dtrack.EventToken(uploadToken), the token of line 65.
QueryToken(p) == uploadToken[p]

GoQueryReply(p) ==
    /\ gpc[p] = "query"
    /\ \E ok \in Outcomes(p, TRUE) :
        /\ LET token == QueryToken(p)
               processing == token \in 1..Len(boms) /\ boms[token].processing
               o == AfterQuery(ok, processing)
           IN  /\ Logged(p, Call("UploadBOM", "IsProcessing", ok,
                                 <<token, ok /\ processing>>))
               /\ gpc' = [gpc EXCEPT ![p] = o.gpc]
               /\ gval' = [gval EXCEPT ![p] = o.gval]
    /\ sinceSelect' = [sinceSelect EXCEPT ![p] = 0]
    /\ UNCHANGED <<cfg, net, svc, boms, report, pc, ctxVars, runVars, isLatest, project,
                   uploadToken, tickPending, untilTick, elapsed, qStart, finishedAt,
                   ubResult, result>>

\* Lines 104-106: case <-time.After(...).
GoTimeout(p) ==
    /\ gpc[p] = "select"
    /\ TimeoutReady(p)
    /\ gpc' = [gpc EXCEPT ![p] = "sendErr"]
    /\ gval' = [gval EXCEPT ![p] = "timeout"]
    /\ UNCHANGED <<cfg, net, svc, boms, report, pc, ctxVars, runVars, isLatest, project,
                   uploadToken, tickPending, untilTick, sinceSelect, elapsed, qStart,
                   finishedAt, ubResult, result, calls>>

\* Lines 107-109: case <-ctx.Done().
GoCtxDone(p) ==
    /\ gpc[p] = "select"
    /\ CtxReady(p)
    /\ gpc' = [gpc EXCEPT ![p] = "sendErr"]
    /\ gval' = [gval EXCEPT ![p] = "ctxErr"]
    /\ UNCHANGED <<cfg, net, svc, boms, report, pc, ctxVars, runVars, isLatest, project,
                   uploadToken, tickPending, untilTick, sinceSelect, elapsed, qStart,
                   finishedAt, ubResult, result, calls>>

\* Received that hands the caller one error for whatever the goroutine sent.
Received_Generic(g, v) == IF g = "sendDone" THEN "nil" ELSE "timeout"

\* Lines 114-123: the caller's select receives what the goroutine sends on
\* doneChan or errChan (both unbuffered), and UploadBOM returns.
Received(g, v) == IF g = "sendDone" THEN "nil" ELSE v

CallerRecv(p) ==
    /\ pc[p] = "ub_wait"
    /\ gpc[p] \in {"sendDone", "sendErr"}
    /\ UploadReturns(p, Received(gpc[p], gval[p]))
    /\ gpc' = [gpc EXCEPT ![p] = "closing"]
    /\ UNCHANGED <<cfg, net, svc, boms, report, ctxVars, runVars, isLatest, project,
                   uploadToken, gval, tickPending, untilTick, sinceSelect, elapsed,
                   qStart, finishedAt, calls>>

\* Lines 84-90: the deferred ticker.Stop and close of both channels.
GoExit(p) ==
    /\ gpc[p] = "closing"
    /\ gpc' = [gpc EXCEPT ![p] = "exited"]
    /\ tickPending' = [tickPending EXCEPT ![p] = FALSE]
    /\ UNCHANGED <<cfg, net, svc, boms, report, pc, ctxVars, runVars, isLatest, project,
                   uploadToken, gval, untilTick, sinceSelect, elapsed, qStart,
                   finishedAt, ubResult, result, calls>>


\* ---------------------------------------- DependencyTrack.AddTagsToProject
\* AppendTags that skips a tag the project already carries.
AppendTags_Dedup(existing, tags) ==
    existing \o SelectSeq(tags, LAMBDA t : \A k \in 1..Len(existing) : existing[k] /= t)

\* Lines 142-144: project.Tags = append(project.Tags, Tag{Name: tag}) per tag.
AppendTags(existing, tags) == existing \o tags

\* Lines 137-144: Project.Lookup, then the tags are appended to the local record.
ATLookup(p) ==
    /\ pc[p] = "at_lookup"
    /\ \E ok \in Outcomes(p, svc.exists) :
        /\ Logged(p, Call("AddTags", "Lookup", ok, IF ok THEN svc.tags ELSE <<>>))
        /\ project' = [project EXCEPT ![p] =
                IF ok THEN [Record EXCEPT !.tags = AppendTags(@, projectTags[p])]
                ELSE NoProject]
        /\ pc' = [pc EXCEPT ![p] = IF ok THEN "at_update" ELSE "done"]
        /\ result' = [result EXCEPT ![p] = IF ok THEN "none" ELSE "errLookup"]
    /\ UNCHANGED <<cfg, net, svc, boms, report, ctxVars, runVars, isLatest, uploadToken,
                   pollVars, finishedAt, ubResult>>

\* Lines 146-151: Project.Update stores the tags of the record it is given.
ATUpdate(p) ==
    /\ pc[p] = "at_update"
    /\ \E ok \in Outcomes(p, svc.exists) :
        /\ Logged(p, Call("AddTags", "Update", ok, project[p].tags))
        /\ svc' = IF ok THEN [svc EXCEPT !.tags = project[p].tags] ELSE svc
        /\ result' = [result EXCEPT ![p] = IF ok THEN "nil" ELSE "errUpdate"]
    /\ pc' = [pc EXCEPT ![p] = "done"]
    /\ UNCHANGED <<cfg, net, boms, report, ctxVars, runVars, isLatest, project, uploadToken,
                   pollVars, finishedAt, ubResult>>

\* -------------------------------------------------------- environment ----
Polling(p) == gpc[p] \in {"select", "query"}

\* Where run p is with respect to its poll loop.
Phase(p) ==
    IF gpc[p] = "none" THEN "before"
    ELSE IF ~Polling(p) THEN "after"
    ELSE IF /\ gpc[p] = "select"
            /\ elapsed[p] < cfg.checkInterval
            /\ ~TimeoutReady(p) THEN "quiet"
    ELSE "busy"

\* The caller of Run cancels ctx.
Cancel(p) ==
    /\ pc[p] \notin {"idle", "done"}
    /\ ~cancelled[p]
    /\ cancelled' = [cancelled EXCEPT ![p] = TRUE]
    /\ cancelPhase' = [cancelPhase EXCEPT ![p] = Phase(p)]
    /\ cancelAt' = [cancelAt EXCEPT ![p] = elapsed[p]]
    /\ UNCHANGED <<cfg, net, svc, boms, report, pc, runVars, isLatest, project, uploadToken,
                   pollVars, finishedAt, ubResult, result, calls>>

\* The service finishes processing upload t and stamps the project with the
\* time of the import, the latest instant of the modelled range of stamps.
ImportStamp == MaxStamp

ServerFinish(t) ==
    /\ t \in 1..Len(boms)
    /\ boms[t].processing
    /\ boms' = [boms EXCEPT ![t].processing = FALSE]
    /\ svc' = [svc EXCEPT !.lastBOMImport = ImportStamp]
    /\ finishedAt' = [finishedAt EXCEPT ![boms[t].owner] =
            IF Polling(boms[t].owner) THEN elapsed[boms[t].owner] ELSE -2]
    /\ UNCHANGED <<cfg, net, report, pc, ctxVars, runVars, isLatest, project, uploadToken,
                   pollVars, ubResult, result, calls>>

\* A goroutine that can take a step now does so before time passes.
Urgent(p) ==
    \/ gpc[p] \in {"sendDone", "sendErr", "closing"}
    \/ gpc[p] = "select" /\ (TickReady(p) \/ TimeoutReady(p) \/ CtxReady(p))

\* One unit of time passes for every running poll loop; a ticker whose
\* interval has elapsed puts a tick into its channel (capacity 1).
Advance ==
    /\ \E p \in Procs : Polling(p)
    /\ \A p \in Procs : ~Urgent(p)
    /\ \A p \in Procs : Polling(p) => elapsed[p] < MaxTime
    /\ elapsed' = [p \in Procs |-> IF Polling(p) THEN elapsed[p] + 1 ELSE elapsed[p]]
    /\ sinceSelect' = [p \in Procs |->
            IF Polling(p) THEN sinceSelect[p] + 1 ELSE sinceSelect[p]]
    /\ untilTick' = [p \in Procs |->
            IF ~Polling(p) THEN untilTick[p]
            ELSE IF untilTick[p] = 1 THEN cfg.checkInterval ELSE untilTick[p] - 1]
    /\ tickPending' = [p \in Procs |->
            tickPending[p] \/ (Polling(p) /\ untilTick[p] = 1)]
    /\ UNCHANGED <<cfg, net, svc, boms, report, pc, ctxVars, runVars, isLatest, project,
                   uploadToken, gpc, gval, qStart, finishedAt, ubResult, result, calls>>

\* ------------------------------------------------------ specifications ---
Next ==
    \/ \E p \in Procs : RunStart(p)
    \/ \E p \in Procs : IsLatest(p)
    \/ \E p \in Procs : UBLookup(p)
    \/ \E p \in Procs : UBCreate(p)
    \/ \E p \in Procs : UBRelookup(p)
    \/ \E p \in Procs : UBSubmit(p)
    \/ \E p \in Procs : GoTick(p)
    \/ \E p \in Procs : GoQueryReply(p)
    \/ \E p \in Procs : GoTimeout(p)
    \/ \E p \in Procs : GoCtxDone(p)
    \/ \E p \in Procs : CallerRecv(p)
    \/ \E p \in Procs : GoExit(p)
    \/ \E p \in Procs : ATLookup(p)
    \/ \E p \in Procs : ATUpdate(p)
    \/ \E p \in Procs : Cancel(p)
    \/ \E t \in 1..Len(boms) : ServerFinish(t)
    \/ Advance

Spec == Init /\ [][Next]_vars

SpecPoll == InitPoll /\ [][Next]_vars


\* One run of an update report whose templates render to any list of the tags
\* "a" and "b", against a project that may already carry "b".
TagReports ==
    {[kind |-> "update", ts |-> <<"1">>, tags |-> t] :
        t \in UNION {[1..k -> {"a", "b"}] : k \in 0..MaxTags}}

InitTags ==
    /\ InitWith({[r1 |-> r, r2 |-> NoReport] : r \in TagReports})
    /\ net = "lossy"
    /\ cfg = Shortest

SpecTags == InitTags /\ [][Next]_vars

\* Two runs of Run at once, each for an update report on the same
\* (projectName, projectVersion), with the shortest durations and a network
\* that loses nothing.
InitConc ==
    /\ InitWith([Procs -> {PollReport}])
    /\ cfg = Shortest
    /\ net = "reliable"
    /\ svc.tags = <<>> /\ svc.lastBOMImport = 0

\* Neither caller cancels its context.
NextConc ==
    \/ \E p \in Procs : RunStart(p)
    \/ \E p \in Procs : IsLatest(p)
    \/ \E p \in Procs : UBLookup(p)
    \/ \E p \in Procs : UBCreate(p)
    \/ \E p \in Procs : UBRelookup(p)
    \/ \E p \in Procs : UBSubmit(p)
    \/ \E p \in Procs : GoTick(p)
    \/ \E p \in Procs : GoQueryReply(p)
    \/ \E p \in Procs : GoTimeout(p)
    \/ \E p \in Procs : CallerRecv(p)
    \/ \E p \in Procs : GoExit(p)
    \/ \E p \in Procs : ATLookup(p)
    \/ \E p \in Procs : ATUpdate(p)
    \/ \E t \in 1..Len(boms) : ServerFinish(t)
    \/ Advance

SpecConc == InitConc /\ [][NextConc]_vars


\* ------------------------------------------------- reading the history ---
\* The positions in run p's history of the calls of op made by function fn.
Made(p, fn, op) ==
    {i \in 1..Len(calls[p]) : calls[p][i][1] = fn /\ calls[p][i][2] = op}
MadeOk(p, fn, op) == {i \in Made(p, fn, op) : calls[p][i][3]}
Failed(p, fn, op) == {i \in Made(p, fn, op) : ~calls[p][i][3]}
MadeBy(p, fn)     == {i \in 1..Len(calls[p]) : calls[p][i][1] = fn}

Queries(p)        == Made(p, "UploadBOM", "IsProcessing")
AllAnswersTrue(p) == \A i \in Queries(p) : calls[p][i][3] /\ calls[p][i][4][2]
AnsweredFalse(p)  == \E i \in MadeOk(p, "UploadBOM", "IsProcessing") : ~calls[p][i][4][2]
NoFailedQuery(p)  == Failed(p, "UploadBOM", "IsProcessing") = {}

IsError(e)  == e \notin {"none", "nil"}
Returned(p) == ubResult[p] /= "none"

\* ---------------------------------------------------------------- C1 -----
\* C1: the timeout is a single deadline of uploadTimeout measured from the
\* start of the poll loop: while every is-processing query answers true and
\* ctx is not cancelled, no query is issued after uploadTimeout has elapsed
\* since the loop started, and the goroutine does not go on waiting in its
\* select past that deadline.
C1_SingleDeadline ==
    \A p \in Procs :
        (~cancelled[p] /\ AllAnswersTrue(p)) =>
            /\ gpc[p] = "query" => qStart[p] <= cfg.uploadTimeout
            /\ (gpc[p] = "select" /\ elapsed[p] > cfg.uploadTimeout)
                    => sinceSelect[p] = 0

\* ---------------------------------------------------------------- C2 -----
\* C2: a create race is tolerated: a call whose Project.Create failed because
\* the project had been created meanwhile looks the project up again and,
\* that lookup succeeding, submits its BOM instead of returning the create error.
CreateConflicts(p) ==
    {i \in Failed(p, "UploadBOM", "Create") : calls[p][i][4] = "conflict"}

C2_CreateRaceTolerated ==
    \A p \in Procs :
        \A i \in CreateConflicts(p) :
            Returned(p) =>
                /\ ubResult[p] /= "errCreate"
                /\ \E j \in MadeOk(p, "UploadBOM", "Lookup") : j > i
                /\ \E k \in Made(p, "UploadBOM", "Submit") : k > i

\* ---------------------------------------------------------------- C3 -----
\* C3: when IsLatest's lookup succeeds, IsLatest returns true iff the record's
\* lastBOMImport is strictly less than the incoming timestamp; a tie is false.
C3_StrictlyOlder ==
    \A p \in Procs :
        \A i \in MadeOk(p, "IsLatest", "Lookup") :
            /\ arbiter[p] = <<calls[p][i][4] < incomingTS[p]>>
            /\ calls[p][i][4] >= incomingTS[p] => arbiter[p] = <<FALSE>>

\* C3 witness: a tie (record = incoming) has been arbitrated, as not latest.
C3_Witness ==
    \E p \in Procs :
        \E i \in MadeOk(p, "IsLatest", "Lookup") :
            calls[p][i][4] = incomingTS[p] /\ arbiter[p] = <<FALSE>>

\* ---------------------------------------------------------------- C4 -----
\* C4: when IsLatest's lookup fails IsLatest returns true whatever the
\* incoming timestamp is, and that lookup is the only service call it makes.
C4_LookupFailureIsLatest ==
    \A p \in Procs :
        Failed(p, "IsLatest", "Lookup") /= {} =>
            /\ arbiter[p] = <<TRUE>>
            /\ Cardinality(MadeBy(p, "IsLatest")) = 1

\* C4 witness: the lookup failed for an incoming timestamp below every stamp
\* a record can carry, and IsLatest answered true.
C4_Witness ==
    \E p \in Procs :
        /\ Failed(p, "IsLatest", "Lookup") /= {}
        /\ incomingTS[p] < 0
        /\ arbiter[p] = <<TRUE>>

\* ---------------------------------------------------------------- C5 -----
FinishedEarly(p) == finishedAt[p] >= 0 /\ finishedAt[p] < cfg.checkInterval
\* ctx was not cancelled before the poll loop reached its outcome.
NotCancelledInLoop(p) == cancelPhase[p] \in {"none", "after"}

\* C5 as claimed: if the service finishes the token before one checkInterval
\* has elapsed since the loop started (ctx not cancelled, no query failing),
\* UploadBOM returns nil, for every checkInterval and uploadTimeout.
C5_EarlyFinishSucceeds ==
    \A p \in Procs :
        (Returned(p) /\ FinishedEarly(p) /\ NotCancelledInLoop(p) /\ NoFailedQuery(p))
            => ubResult[p] = "nil"

\* C5 amended: the same, provided uploadTimeout > checkInterval.
C5_EarlyFinishSucceedsIfTimeoutLonger ==
    \A p \in Procs :
        (/\ Returned(p) /\ FinishedEarly(p) /\ NotCancelledInLoop(p) /\ NoFailedQuery(p)
         /\ cfg.uploadTimeout > cfg.checkInterval)
            => ubResult[p] = "nil"

\* C5 witness: an early finish, uploadTimeout > checkInterval, and UploadBOM
\* has returned nil after one query.
C5_Witness ==
    \E p \in Procs :
        /\ FinishedEarly(p) /\ cfg.uploadTimeout > cfg.checkInterval
        /\ ubResult[p] = "nil" /\ Cardinality(Queries(p)) = 1

\* ---------------------------------------------------------------- C6 -----
\* C6: when ctx is cancelled while the poll loop waits for its first tick,
\* no time passes before the goroutine reacts, no is-processing query is
\* issued, and UploadBOM returns the context's error.
C6_CancelBeforeFirstTick ==
    \A p \in Procs :
        cancelPhase[p] = "quiet" =>
            /\ elapsed[p] = cancelAt[p]
            /\ Queries(p) = {} /\ gpc[p] /= "query"
            /\ ubResult[p] \in {"none", "ctxErr"}

\* C6 witness: UploadBOM has returned the context's error after such a cancel.
C6_Witness ==
    \E p \in Procs : cancelPhase[p] = "quiet" /\ ubResult[p] = "ctxErr"


\* ---------------------------------------------------------------- C7 -----
\* C7: the latest flag is fixed before UploadBOM is called and is the value
\* UploadBOM submits: with an unparsable update timestamp IsLatest is not
\* called and true is submitted; otherwise IsLatest is called exactly once,
\* before UploadBOM's first service call, and what it returned is what is
\* submitted and what the service holds for the upload.
Submitted(p) == {calls[p][i][4][2] : i \in Made(p, "UploadBOM", "Submit")}

C7_LatestFixedBeforeUpload ==
    \A p \in Procs :
        /\ errTS[p] =>
            /\ MadeBy(p, "IsLatest") = {} /\ arbiter[p] = <<>>
            /\ Submitted(p) \subseteq {TRUE}
        /\ (~errTS[p] /\ MadeBy(p, "UploadBOM") /= {}) =>
            /\ MadeBy(p, "IsLatest") = {1}
            /\ Len(arbiter[p]) = 1
            /\ \A v \in Submitted(p) : <<v>> = arbiter[p]
        /\ uploadToken[p] /= 0 => {boms[uploadToken[p]].latest} = Submitted(p)

\* C7 witness: IsLatest answered false and false is what was submitted.
C7_Witness ==
    \E p \in Procs :
        /\ ~errTS[p] /\ arbiter[p] = <<FALSE>>
        /\ uploadToken[p] /= 0 /\ Submitted(p) = {FALSE}

\* ---------------------------------------------------------------- C8 -----
\* C8: with an empty resolved tag list Run never calls AddTagsToProject (no
\* lookup for tagging, no update-project call) and returns what UploadBOM
\* returned.
C8_NoTagsNoTagging ==
    \A p \in Procs :
        projectTags[p] = <<>> =>
            /\ MadeBy(p, "AddTags") = {}
            /\ pc[p] \notin {"at_lookup", "at_update"}
            /\ Returned(p) => result[p] = ubResult[p]

\* C8 witness: an update report without tags was uploaded and Run returned nil.
C8_Witness ==
    \E p \in Procs :
        /\ report[p].kind = "update" /\ projectTags[p] = <<>>
        /\ ubResult[p] = "nil" /\ result[p] = "nil"

\* ---------------------------------------------------------------- C9 -----
\* C9: for a report whose verb is not "update" Run returns an error and makes
\* no call to the tracking service at all.
C9_NonUpdateVerbRejected ==
    \A p \in Procs :
        report[p].kind = "create" =>
            /\ calls[p] = <<>>
            /\ pc[p] \in {"run", "done"}
            /\ pc[p] = "done" => IsError(result[p])

\* C9 witness: Run has returned for a report with the verb "create".
C9_Witness ==
    \E p \in Procs : report[p].kind = "create" /\ pc[p] = "done"

\* --------------------------------------------------------------- C10 -----
CreatedByRun(p)  == MadeOk(p, "UploadBOM", "Create") /= {}
SubmittedOk(p)   == MadeOk(p, "UploadBOM", "Submit") /= {}
TagsPersisted(p) == MadeOk(p, "AddTags", "Update") /= {}

\* C10 as claimed: when Run returns an error the service has not been left
\* with part of the sequence applied: no project created without a BOM
\* submitted, no BOM uploaded and processed without the tags persisted.
C10_NoPartialState ==
    \A p \in Procs :
        IsError(result[p]) =>
            /\ ~(CreatedByRun(p) /\ ~SubmittedOk(p))
            /\ ~(AnsweredFalse(p) /\ projectTags[p] /= <<>> /\ ~TagsPersisted(p))

\* The whole sequence of an update report: BOM submitted, found no longer
\* processing, and the tags (if any) persisted.
FullSequence(p) ==
    /\ SubmittedOk(p)
    /\ AnsweredFalse(p)
    /\ projectTags[p] /= <<>> => TagsPersisted(p)

\* The failed calls that end a run: all but IsLatest's lookup and
\* UploadBOM's first lookup.
FatalFailures(p) ==
    {i \in 1..Len(calls[p]) :
        /\ ~calls[p][i][3]
        /\ calls[p][i][1] /= "IsLatest"
        /\ ~(/\ calls[p][i][1] = "UploadBOM" /\ calls[p][i][2] = "Lookup"
             /\ \A j \in Made(p, "UploadBOM", "Lookup") : j >= i)}

\* C10 amended: every error aborts the run at once, without rollback: a
\* fatally failed call is the last call of the run, after a failed UploadBOM
\* nothing is tagged, a run that returns an error has not completed the
\* sequence, and a run of an update report returns nil only if it has.
C10_AbortAtFirstFailure ==
    \A p \in Procs :
        /\ \A i \in FatalFailures(p) :
                i = Len(calls[p]) /\ (pc[p] = "done" => IsError(result[p]))
        /\ IsError(ubResult[p]) => (MadeBy(p, "AddTags") = {} /\ result[p] = ubResult[p])
        /\ IsError(result[p]) => ~FullSequence(p)
        /\ (result[p] = "nil" /\ report[p].kind = "update") => FullSequence(p)

\* C10 witness: Run has returned an error after creating the project and
\* without submitting a BOM: the run failed, the created project remains.
C10_Witness ==
    \E p \in Procs :
        IsError(result[p]) /\ CreatedByRun(p) /\ ~SubmittedOk(p) /\ svc.exists

\* ---------------------------------------------------------------- C11 ----
\* The error a failed call of the tracking service returns, by operation.
ErrorOf(c) ==
    CASE c[2] = "Lookup"       -> "errLookup"
      [] c[2] = "Create"       -> "errCreate"
      [] c[2] = "Submit"       -> "errSubmit"
      [] c[2] = "IsProcessing" -> "errPoll"
      [] c[2] = "Update"       -> "errUpdate"

\* The failed create, submit and is-processing calls of run p's UploadBOM.
UploadFailures(p) ==
    Failed(p, "UploadBOM", "Create") \cup Failed(p, "UploadBOM", "Submit")
        \cup Failed(p, "UploadBOM", "IsProcessing")

\* The goroutine has chosen its outcome, or UploadBOM has returned.
Decided(p) == gpc[p] \in {"sendDone", "sendErr", "closing", "exited"} \/ Returned(p)

C11_Verbatim ==
    \A p \in Procs :
        /\ \A i \in UploadFailures(p) :
                /\ \A j \in MadeBy(p, "UploadBOM") : j <= i
                /\ ubResult[p] \in {"none", ErrorOf(calls[p][i])}
        /\ Cardinality(Made(p, "UploadBOM", "Create")) <= 1
        /\ Cardinality(Made(p, "UploadBOM", "Submit")) <= 1
        /\ gval[p] \in {"timeout", "ctxErr"} => ubResult[p] \in {"none", gval[p]}

C11_Final ==
    \A p \in Procs :
        Decided(p) => /\ MadeBy(p, "UploadBOM")' = MadeBy(p, "UploadBOM")
                      /\ Returned(p) => ubResult'[p] = ubResult[p]

\* C11: UploadBOM returns each failure as it occurred and never retries: a
\* failed create, submit or is-processing query is the last call UploadBOM
\* makes and its error is the one UploadBOM returns, create and submit are
\* called at most once, a timeout or a cancellation the goroutine chose is
\* the error returned, and once the outcome is chosen UploadBOM makes no
\* further call and does not change what it returned.
C11_FailuresReturnedVerbatim == []C11_Verbatim /\ [][C11_Final]_vars

\* C11 witness: an is-processing query failed after an earlier one had
\* answered, and UploadBOM has returned that query's error.
C11_Witness ==
    \E p \in Procs :
        /\ ubResult[p] = "errPoll"
        /\ Cardinality(Queries(p)) >= 2

\* ---------------------------------------------------------------- C12 ----
\* Run p's goroutine is waiting in its select: no tick, timeout or
\* cancellation is ready, so only the passing of time can end the wait.
Waiting(p) == gpc[p] = "select" /\ ~Urgent(p)

\* C12: the background poll task always terminates, whatever the endpoint
\* answers and whatever the durations: a task waiting in its select still has
\* time left before uploadTimeout, counted from the start of the loop, expires
\* (so the waits are bounded and the timeout ends a loop nothing else ends);
\* a task that has its outcome finds the caller still receiving, so its send
\* does not block; and once UploadBOM has returned the task is closing its
\* channels or has exited.
C12_PollTaskTerminates ==
    \A p \in Procs :
        /\ Waiting(p) => elapsed[p] < cfg.uploadTimeout
        /\ gpc[p] \in {"sendDone", "sendErr"} => pc[p] = "ub_wait"
        /\ Returned(p) => gpc[p] \in {"none", "closing", "exited"}

\* ---------------------------------------------------------------- C13 ----
\* C13: AddTagsToProject is append-only: every update it got persisted carries
\* the tags its lookup returned followed by the argument tags in their order,
\* nothing removed and nothing merged; when it has returned nil the project
\* holds exactly that sequence; and after a failed lookup no update call is
\* made and the lookup's error is what is returned.
C13_AppendOnly ==
    \A p \in Procs :
        /\ \A i \in MadeOk(p, "AddTags", "Update") :
                /\ \E j \in MadeOk(p, "AddTags", "Lookup") :
                        j < i /\ calls[p][i][4] = calls[p][j][4] \o projectTags[p]
                /\ result[p] = "nil" /\ svc.tags = calls[p][i][4]
        /\ Failed(p, "AddTags", "Lookup") /= {} =>
                /\ Made(p, "AddTags", "Update") = {}
                /\ result[p] = ErrorOf(calls[p][Len(calls[p])])

\* C13 witness: the tags "b", "a" were added to a project that carried "b":
\* it now carries "b" twice, then "a".
C13_Witness ==
    \E p \in Procs :
        /\ result[p] = "nil"
        /\ projectTags[p] = <<"b", "a">>
        /\ svc.tags = <<"b", "b", "a">>

\* ---------------------------------------------------------------- C14 ----
\* The failed calls the code reads as an answer: IsLatest's lookup ("latest")
\* and UploadBOM's first lookup ("no such project").
Tolerated(p) ==
    {i \in 1..Len(calls[p]) : ~calls[p][i][3]} \ FatalFailures(p)

\* C14 as claimed: every failed call of the tracking service made for Run, a
\* project lookup included, is the run's last call, and its error is what
\* Run returns.
C14_EveryFailureFatal ==
    \A p \in Procs :
        \A i \in 1..Len(calls[p]) :
            ~calls[p][i][3] =>
                /\ i = Len(calls[p])
                /\ pc[p] = "done" => result[p] = ErrorOf(calls[p][i])

\* C14, amended: every failed create, update, submit or is-processing call,
\* and every failed lookup but IsLatest's and UploadBOM's first, is the run's
\* last call and its error is what UploadBOM (when it made the call) and Run
\* return; after a failed lookup in IsLatest or a failed first lookup in
\* UploadBOM the run goes on, to UploadBOM's lookup and to Project.Create.
C14_FailuresFatalButFirstLookups ==
    \A p \in Procs :
        /\ \A i \in FatalFailures(p) :
                /\ i = Len(calls[p])
                /\ Returned(p) /\ calls[p][i][1] = "UploadBOM"
                        => ubResult[p] = ErrorOf(calls[p][i])
                /\ pc[p] = "done" => result[p] = ErrorOf(calls[p][i])
        /\ \A i \in Tolerated(p) :
                i = Len(calls[p]) =>
                    /\ result[p] = "none"
                    /\ pc[p] = IF calls[p][i][1] = "IsLatest" THEN "ub_lookup"
                                                               ELSE "ub_create"

\* C14 witness: IsLatest's lookup and UploadBOM's first lookup both failed,
\* the run went on to create the project, and the re-lookup's failure ended it.
C14_Witness ==
    \E p \in Procs :
        /\ Failed(p, "IsLatest", "Lookup") /= {}
        /\ Cardinality(Failed(p, "UploadBOM", "Lookup")) = 2
        /\ result[p] = "errLookup"

\* ---------------------------------------------------------------- C15 ----
\* C15: an input that sbomreport.New says is not an SBOM report is skipped:
\* Run returns nil; any other failure of sbomreport.New is returned as Run's
\* error; and in both cases Run makes no call of the tracking service.
C15_NotSBOMSkipped ==
    \A p \in Procs :
        /\ report[p].kind \in {"notSBOM", "invalid"} =>
                /\ calls[p] = <<>>
                /\ pc[p] \in {"run", "done"}
        /\ (report[p].kind = "notSBOM" /\ pc[p] = "done") => result[p] = "nil"
        /\ (report[p].kind = "invalid" /\ pc[p] = "done") => result[p] = "errNew"

\* C15 witness: Run has returned nil for an input that is not an SBOM report.
C15_Witness ==
    \E p \in Procs :
        report[p].kind = "notSBOM" /\ pc[p] = "done" /\ result[p] = "nil"

\* ---------------------------------------------------------------- C16 ----
\* C16: each UploadBOM call has one upload token: BOM.Upload is called at
\* most once, the goroutine and its poll loop exist only after that call
\* succeeded, and every is-processing query of the call comes after the
\* submit and carries the token the submit returned.
C16_OneUploadToken ==
    \A p \in Procs :
        /\ Cardinality(Made(p, "UploadBOM", "Submit")) <= 1
        /\ gpc[p] /= "none" => MadeOk(p, "UploadBOM", "Submit") /= {}
        /\ \A q \in Queries(p) :
                \E s \in MadeOk(p, "UploadBOM", "Submit") :
                    s < q /\ calls[p][q][4][1] = calls[p][s][4][3]

\* C16 witness: UploadBOM has returned after two is-processing queries.
C16_Witness ==
    \E p \in Procs : Returned(p) /\ Cardinality(Queries(p)) >= 2

\* ---------------------------------------------------------------- C17 ----
\* The last successful lookup UploadBOM made before its call at position k
\* (0: none).
LastLookupBefore(p, k) ==
    LET ls == {j \in MadeOk(p, "UploadBOM", "Lookup") : j < k}
    IN  IF ls = {} THEN 0 ELSE CHOOSE j \in ls : \A l \in ls : l <= j

\* C17: UploadBOM ensures the project exists before it submits:
\* Project.Create is called only after the first lookup failed and at most
\* once, and BOM.Upload is called only after a lookup succeeded, with the
\* UUID the most recent successful lookup returned (the re-lookup's when the
\* project was just created).
C17_ProjectEnsuredBeforeSubmit ==
    \A p \in Procs :
        /\ Cardinality(Made(p, "UploadBOM", "Create")) <= 1
        /\ \A c \in Made(p, "UploadBOM", "Create") :
                \E l \in Failed(p, "UploadBOM", "Lookup") :
                    l < c /\ \A j \in Made(p, "UploadBOM", "Lookup") : j >= l
        /\ \A s \in Made(p, "UploadBOM", "Submit") :
                /\ LastLookupBefore(p, s) /= 0
                /\ calls[p][s][4][1] = calls[p][LastLookupBefore(p, s)][4]

\* ---------------------------------------------------------------- C18 ----
\* C18: UploadBOM returns nil only if, during the call, an is-processing
\* query for the call's own token succeeded and answered false: nil never
\* follows a timeout, a cancellation the goroutine acted on, or a failed
\* query, and the caller never takes its result from a channel the goroutine
\* has already closed.
C18_NilOnlyAfterCompletion ==
    \A p \in Procs :
        /\ ubResult[p] = "nil" =>
                /\ \E q \in MadeOk(p, "UploadBOM", "IsProcessing") :
                        /\ ~calls[p][q][4][2]
                        /\ calls[p][q][4][1] = uploadToken[p]
                        /\ q = Len(calls[p]) \/ calls[p][q + 1][1] /= "UploadBOM"
                /\ gval[p] = "done"
                /\ NoFailedQuery(p)
        /\ (pc[p] = "ub_wait" /\ ~Returned(p)) => gpc[p] \notin {"closing", "exited"}

\* C18 witness: UploadBOM has returned nil after a query that answered true
\* and a later one that answered false.
C18_Witness ==
    \E p \in Procs :
        /\ ubResult[p] = "nil"
        /\ \E q \in MadeOk(p, "UploadBOM", "IsProcessing") : calls[p][q][4][2]

\* ---------------------------------------------------------------- C19 ----
\* How often tag t occurs in the tag sequence s.
Occurrences(s, t) == Cardinality({i \in 1..Len(s) : s[i] = t})

\* Every tag name a report or a project of the model carries.
AllTags == {"a", "b"}

\* C19: concurrent tagging loses nothing: once the AddTagsToProject calls of
\* both runs have returned nil, the project's persisted tags contain every
\* tag of both calls (a tag as often as the two calls added it together).
C19_ConcurrentTaggingLosesNothing ==
    (\A p \in Procs : result[p] = "nil" /\ MadeOk(p, "AddTags", "Update") /= {}) =>
        \A t \in AllTags :
            Occurrences(svc.tags, t) >=
                Occurrences(projectTags["r1"], t) + Occurrences(projectTags["r2"], t)

====
